---- MODULE Spec2Model ----
(***************************************************************************)
(* StudioBlood LADSPA plugins: sb_kite.c (run_Kite), sb_esreveR.c          *)
(* (run_Reverse) and sb_adt.c (run_Adt), with the helpers they call.       *)
(*                                                                         *)
(* unsigned long values are kept as the residue modulo 2^64 nearest zero:  *)
(* a negative integer -k stands for 2^64 - k.  Addition and subtraction    *)
(* are then the integer ones; comparisons go through ULt/ULe.              *)
(* Sample buffers are C arrays: index i of the code is element i+1 of the  *)
(* sequence.  mem maps each pointer of the instance struct to the array it *)
(* points to; every buffer of one instance has bufLen elements.            *)
(***************************************************************************)
EXTENDS Integers, Sequences, FiniteSets, TLC

VARIABLES
    plugin,                \* which plugin the instance is
    sample_rate,           \* the sample_rate field of the instance
    bufLen,                \* length of each buffer the host connected
    orig,                  \* the buffers as they were when run was entered
    pc,                    \* position of the host and of the run function
    instance,              \* the handle passed to run: NULL or VALID
    total_samples,         \* the sample count passed to run
    mem,                   \* pointer of the instance |-> array
    oob,                   \* pointers that were used outside their array
    draws,                 \* calls of the generator so far
    out_index, in_index,
    start_position,                                    \* run_Reverse
    blocks,                \* the sub-blocks run_Reverse has processed
    block_start_position, block_end_position,          \* run_Kite
    samples_remaining, reverse,
    offset, SAMPLE_OFFSET, run_off_index,              \* run_Adt
    hist,                  \* the delayed channel over the accepted calls
    gen,                   \* the static variables of xor4096i, and its result
    seed,                  \* the argument of the last xor4096i call
    low, high,             \* GetRandomNaturalNumber called on its own: its
    word,                  \* arguments, the word xor4096i gave it and its
    rand_num,              \* result
    allocated              \* the blocks malloc gave the plugin, not freed

\* what no run function changes.  The plugins seed the generator with the
\* time of day on every draw, so their models take any word for a draw and
\* leave gen alone; SpecXor follows the generator itself.
cfg == <<plugin, sample_rate, bufLen, gen, seed, low, high, word, rand_num,
         allocated>>
call == <<instance, total_samples, orig>>
kiteVars == <<block_start_position, block_end_position, samples_remaining,
              reverse>>
revVars == <<start_position, blocks>>
adtVars == <<offset, SAMPLE_OFFSET, run_off_index, hist>>

vars == <<cfg, call, pc, mem, oob, draws, out_index, in_index, kiteVars,
          revVars, adtVars>>

(***************************************************************************)
(* Bounds of the model.                                                    *)
(***************************************************************************)
\* number of buffer lengths explored above the largest window of a rate
KiteExtra == 1
\* largest buffer handed to run_Reverse
MaxRevLen == 19
\* largest buffer handed to run_Adt
MaxAdtLen == 7
\* run_Adt calls followed in one behaviour
MaxCalls == 3
\* generator words are drawn from 0..MaxRaw
MaxRaw == 24
\* the count of generator calls saturates here
MaxDraws == 3

\* GetRandomNaturalNumber called on its own takes its bounds at most this far
\* from 0 and from 2^64
MaxEdge == 3
\* instantiate is called with the sample rates up to this one
MaxRate == 40
\* xor4096i calls followed in one behaviour
MaxGenCalls == 8
\* largest buffer handed to a helper function called on its own
MaxUnitLen == 6

\* sample rates of the Kite instances (0 is the rejected one)
KiteRates == {0, 1, 4, 12}
\* the rates whose buffers are too long to follow every sample: they are
\* run on a steady signal and only from one length past the largest window
KiteLongRates == {12}
\* sample rates of the Reverse instances (9 is below the floor)
ReverseRates == {9, 10, 15}
\* sample rates of the Adt instances (999 is below the floor)
AdtRates == {999, 1000}
\* values of the offset control port, in milliseconds: below the range, in
\* it and above it
OffsetControls == {0, 5, 6, 250}
\* what a read outside an array may return
OobValues == {99}

\* draws counts the calls of xor4096i, each of which changes the generator
Drawn(d, k) == IF d + k > MaxDraws THEN MaxDraws ELSE d + k

NULL == "null"
VALID == "valid"

(***************************************************************************)
(* unsigned long arithmetic                                                *)
(***************************************************************************)
ULt(a, b) == IF (a < 0) = (b < 0) THEN a < b ELSE b < 0
ULe(a, b) == a = b \/ ULt(a, b)

(***************************************************************************)
(* Arrays                                                                  *)
(***************************************************************************)
InBuf(buf, i) == 0 <= i /\ i < Len(buf)
Rd(buf, i, g) == IF InBuf(buf, i) THEN buf[i + 1] ELSE g
Wr(buf, i, v) == IF InBuf(buf, i) THEN [buf EXCEPT ![i + 1] = v] ELSE buf

\* a heap during one step: the arrays, the pointers used out of bounds, and
\* whether the step ran away (segmentation fault, division by zero)
Heap(m, o) == [buf |-> m, oob |-> o, crashed |-> FALSE]
Touch(h, p, i) == IF InBuf(h.buf[p], i) THEN h.oob ELSE h.oob \cup {p}

Range(s) == {s[i] : i \in DOMAIN s}
BagOfSeq(s) == [v \in Range(s) |-> Cardinality({i \in DOMAIN s : s[i] = v})]
Slice(s, a, b) == [k \in 1..(b - a + 1) |-> s[a + k]]

(***************************************************************************)
(* xorgens.c, with UINT the 64-bit unsigned long of xorgens.h.  A word is  *)
(* the set of the positions (0 the lowest) of its one bits.                *)
(***************************************************************************)
\* sizeof(UINT), UINT being the unsigned long of an LP64 build
SizeofUINT == 8

\* #define UINT64 (sizeof(UINT)>>3)   and   #define UINT32 (1 - UINT64)
UINT64(size) == size \div 8
UINT32(size) == 1 - UINT64(size)

\* the same with the two array sizes exchanged
gen_r_of_Exchanged(size) == 128 * UINT64(size) + 64 * UINT32(size)

\* #define r (64*UINT64 + 128*UINT32)
gen_r_of(size) == 64 * UINT64(size) + 128 * UINT32(size)

gen_wlen == 64
gen_r == gen_r_of(SizeofUINT)
gen_s == 53
gen_a == 33
gen_b == 26
gen_c == 27
gen_d == 29
gen_ws == 27

BitPositions == 0..(gen_wlen - 1)

RECURSIVE BitsOf(_, _)
\* the one bits of the natural number n, the lowest at position at
BitsOf(n, at) ==
    IF n = 0 THEN {}
    ELSE (IF n % 2 = 1 THEN {at} ELSE {}) \cup BitsOf(n \div 2, at + 1)

\* the word with the four 16-bit quarters given, the highest first
Word(q3, q2, q1, q0) ==
    BitsOf(q3, 48) \cup BitsOf(q2, 32) \cup BitsOf(q1, 16) \cup BitsOf(q0, 0)

zero == {}
Not(v) == {k \in BitPositions : k \notin v}
Xor(v1, v2) == {k \in BitPositions : (k \in v1) # (k \in v2)}
Shl(v, n) == {k \in BitPositions : (k - n) \in v}
Shr(v, n) == {k \in BitPositions : (k + n) \in v}

RECURSIVE AddFrom(_, _, _, _)
\* v1 + v2 from position k up with the carry into k; the carry out of the
\* highest position is dropped (UINT arithmetic is modulo 2^wlen)
AddFrom(v1, v2, k, carry) ==
    IF k = gen_wlen THEN {}
    ELSE LET sum == (IF k \in v1 THEN 1 ELSE 0) + (IF k \in v2 THEN 1 ELSE 0)
                    + carry
         IN  (IF sum % 2 = 1 THEN {k} ELSE {})
                \cup AddFrom(v1, v2, k + 1, sum \div 2)

Add(v1, v2) == AddFrom(v1, v2, 0, 0)

\* ((((UINT)0x61c88646)<<16)<<16) + (UINT)0x80b583eb
WEYL == Word(25032, 34374, 32949, 33771)

\* v ^= v<<10; v ^= v>>15; v ^= v<<4; v ^= v>>13;
Scramble(v) ==
    LET v1 == Xor(v, Shl(v, 10))
        v2 == Xor(v1, Shr(v1, 15))
        v3 == Xor(v2, Shl(v2, 4))
    IN  Xor(v3, Shr(v3, 13))

\* F(v) with v computed first: a loop of the code is a chain of rounds, and
\* each round is computed before the next one starts
Strict(v, F(_)) == IF v = v THEN F(v) ELSE F(v)

RECURSIVE ScrambleTimes(_, _)
\* k rounds of Scramble, the rounds split in halves
ScrambleTimes(v, k) ==
    IF k = 0 THEN v
    ELSE IF k = 1 THEN Scramble(v)
    ELSE LET Rest(h) == ScrambleTimes(h, k - k \div 2)
         IN  Strict(ScrambleTimes(v, k \div 2), Rest)

\* t ^= t<<a; t ^= t>>b;     and     v ^= v<<c; v ^= v>>d;
MixT(t) == LET t1 == Xor(t, Shl(t, gen_a)) IN Xor(t1, Shr(t1, gen_b))
MixV(v) == LET v1 == Xor(v, Shl(v, gen_c)) IN Xor(v1, Shr(v1, gen_d))

\* the static variables before the first call
NoGen == [i |-> 0 - 1, w |-> zero, weyl |-> zero,
          x |-> [k \in 1..gen_r |-> zero], ret |-> zero]

RECURSIVE FillArray(_, _, _)
\* for (w = v, k = 0; k < r; k++) { scramble v; x[k] = v + (w+=weyl); }
\* for k from lo up to hi - 1, the passes split in halves; st holds the
\* static variables g and the local v
FillArray(st, lo, hi) ==
    IF hi - lo = 1
    THEN LET v1 == Scramble(st.v)
             w1 == Add(st.g.w, st.g.weyl)
         IN  [g |-> [st.g EXCEPT !.w = w1, !.x[lo + 1] = Add(v1, w1)],
              v |-> v1]
    ELSE LET mid == (lo + hi) \div 2
             Rest(h) == FillArray(h, mid, hi)
         IN  Strict(FillArray(st, lo, mid), Rest)

RECURSIVE BitAnd(_, _)
\* m & n for natural numbers
BitAnd(m, n) ==
    IF m = 0 \/ n = 0 THEN 0
    ELSE (m % 2) * (n % 2) + 2 * BitAnd(m \div 2, n \div 2)

\* one step of the recurrence on the circular array:
\* t = x[i = (i+1)&(r-1)];  v = x[(i+(r-s))&(r-1)];  x[i] = t^v
Advance(g) ==
    LET i1 == BitAnd(g.i + 1, gen_r - 1)
        t == MixT(g.x[i1 + 1])
        v == MixV(g.x[BitAnd(i1 + (gen_r - gen_s), gen_r - 1) + 1])
    IN  [g EXCEPT !.i = i1, !.x[i1 + 1] = Xor(t, v)]

RECURSIVE Discard(_, _)
\* for (i = r-1, k = 4*r; k > 0; k--) one step of the recurrence; the
\* passes split in halves
Discard(g, k) ==
    IF k = 0 THEN g
    ELSE IF k = 1 THEN Advance(g)
    ELSE LET Rest(h) == Discard(h, k - k \div 2)
         IN  Strict(Discard(g, k \div 2), Rest)

\* the same leaving the cursor where the earlier calls left it
Initialise_KeepsCursor(g, seed_) ==
    LET v0 == IF seed_ # zero THEN seed_ ELSE Not(seed_)
        v1 == ScrambleTimes(v0, gen_wlen)
        g1 == FillArray([g |-> [g EXCEPT !.weyl = WEYL, !.w = v1],
                         v |-> v1], 0, gen_r).g
    IN  Discard(g1, 4 * gen_r)

\* the body of "if ((i < 0) || (seed != zero))"
Initialise(g, seed_) ==
    LET v0 == IF seed_ # zero THEN seed_ ELSE Not(seed_)
        v1 == ScrambleTimes(v0, gen_wlen)
        g1 == FillArray([g |-> [g EXCEPT !.weyl = WEYL, !.w = v1],
                         v |-> v1], 0, gen_r).g
    IN  Discard([g1 EXCEPT !.i = gen_r - 1], 4 * gen_r)

\* the same running the initialisation on every call
xor4096i_AlwaysInitialise(g, seed_) ==
    LET g0 == Initialise(g, seed_)
        g1 == Advance(g0)
        w1 == Add(g1.w, g1.weyl)
    IN  [g1 EXCEPT !.w = w1,
                   !.ret = Add(g1.x[g1.i + 1], Xor(w1, Shr(w1, gen_ws)))]

\* the same running the initialisation for a nonzero seed only
xor4096i_SeededOnly(g, seed_) ==
    LET g0 == IF seed_ # zero THEN Initialise(g, seed_) ELSE g
        g1 == Advance(g0)
        w1 == Add(g1.w, g1.weyl)
    IN  [g1 EXCEPT !.w = w1,
                   !.ret = Add(g1.x[g1.i + 1], Xor(w1, Shr(w1, gen_ws)))]

\* xor4096i(seed): the static variables after the call, ret the word returned
xor4096i(g, seed_) ==
    LET g0 == IF g.i < 0 \/ seed_ # zero THEN Initialise(g, seed_) ELSE g
        g1 == Advance(g0)
        w1 == Add(g1.w, g1.weyl)
    IN  [g1 EXCEPT !.w = w1,
                   !.ret = Add(g1.x[g1.i + 1], Xor(w1, Shr(w1, gen_ws)))]

(***************************************************************************)
(* sb_kite.c                                                               *)
(***************************************************************************)
MIN_BLOCK_START(sr) == sr \div 4
MAX_BLOCK_END(sr) == MIN_BLOCK_START(sr) + 2 * sr

\* the divisor of GetRandomNaturalNumber; zero is a division by zero
Span(lower_bound, upper_bound) == upper_bound - lower_bound + 1

\* the same without "rand_num += lower_bound"
GetRandomNaturalNumber_NoLower(lower_bound, upper_bound, raw) ==
    LET span == Span(lower_bound, upper_bound)
    IN  IF span <= 0 THEN raw ELSE raw % span

RECURSIVE TwoToMod(_, _)
\* 2^k modulo m, for m > 0
TwoToMod(k, m) == IF k = 0 THEN 1 % m ELSE (2 * TwoToMod(k - 1, m)) % m

\* raw % span on unsigned long, span not zero: a negative raw stands for
\* 2^64 + raw, a negative span for 2^64 + span (more than half the range, so
\* the quotient is 0 or 1)
ModU(raw, span) ==
    IF span > 0
    THEN (IF raw >= 0 THEN raw ELSE TwoToMod(64, span) + raw) % span
    ELSE IF ULt(raw, span) THEN raw ELSE raw - span

RECURSIVE WordModRange(_, _, _, _)
\* rand_num % span for the word v returned by xor4096i and a small span
\* above 0: the sum of the powers of two of its one bits at the positions
\* lo .. hi - 1, the positions split in halves
WordModRange(v, lo, hi, span) ==
    IF hi - lo = 1
    THEN (IF lo \in v THEN TwoToMod(lo, span) ELSE 0)
    ELSE LET mid == (lo + hi) \div 2
         IN  (WordModRange(v, lo, mid, span)
                 + WordModRange(v, mid, hi, span)) % span

WordMod(v, span) == WordModRange(v, 0, gen_wlen, span)

\* the same reducing by upper_bound + 1, the lower bound forgotten
GetRandomNaturalNumber_WholeRange(lower_bound, upper_bound, raw) ==
    lower_bound + ModU(raw, IF upper_bound + 1 = 0 THEN 1
                             ELSE upper_bound + 1)

\* rand_num % (upper_bound - lower_bound + 1) + lower_bound, raw the word
\* returned by xor4096i.
\* Callers test Span first: with a zero span the call never returns.
GetRandomNaturalNumber(lower_bound, upper_bound, raw) ==
    LET span == Span(lower_bound, upper_bound)
    IN  IF span = 0 THEN lower_bound + raw
        ELSE lower_bound + ModU(raw, span)

\* the generator words tried for one call: one word for each residue of the
\* span, and every word up to MaxRaw when the span has wrapped around
Words(lower_bound, upper_bound) ==
    LET span == Span(lower_bound, upper_bound)
    IN  IF span <= 0 \/ span > MaxRaw THEN 0..MaxRaw ELSE 0..(span - 1)

RECURSIVE ApplyReverseLoop(_, _, _, _, _)
ApplyReverseLoop(h, buffer, start, end, g) ==
    IF h.crashed \/ ~ULe(start, end) THEN h
    ELSE IF end < 0 THEN [h EXCEPT !.crashed = TRUE, !.oob = @ \cup {buffer}]
    ELSE LET b0 == h.buf[buffer]
             holder == Rd(b0, start, g)
             b1 == Wr(b0, start, Rd(b0, end, g))
             b2 == Wr(b1, end, holder)
             o2 == Touch([h EXCEPT !.oob = Touch(h, buffer, start)],
                         buffer, end)
         IN  ApplyReverseLoop([h EXCEPT !.buf[buffer] = b2, !.oob = o2],
                              buffer, start + 1, end - 1, g)

ApplyReverse(h, buffer, start, end, g) ==
    ApplyReverseLoop(h, buffer, start, end, g)

RECURSIVE CopyLoop(_, _, _, _, _, _, _)
CopyLoop(h, destination, dest_index, source, src_index, src_end, g) ==
    IF ~ULe(src_index, src_end) THEN h
    ELSE LET v == Rd(h.buf[source], src_index, g)
             o1 == Touch([h EXCEPT !.oob = Touch(h, source, src_index)],
                         destination, dest_index)
         IN  CopyLoop([h EXCEPT !.buf[destination] = Wr(@, dest_index, v),
                                !.oob = o1],
                      destination, dest_index + 1, source, src_index + 1,
                      src_end, g)

CopySubBlock(h, destination, dest_start, source, src_start, src_end, g) ==
    IF dest_start = src_start \/ ULt(src_end, src_start) THEN h
    ELSE CopyLoop(h, destination, dest_start, source, src_start, src_end, g)

\* the same taking the tail of the remaining buffer in every case
SourceStart_AlwaysTail(remaining, start, end) ==
    remaining - (end - start + 1)

\* start of the section copied over the sub-block just emitted
SourceStart(remaining, start, end) ==
    LET samples_copied == end - start + 1
    IN  IF ULt(end, remaining - samples_copied)
        THEN remaining - samples_copied
        ELSE end + 1

KiteAccepts(n, inst, sr) == ~(n <= 1) /\ inst # NULL /\ sr # 0

KiteLens(sr) ==
    IF sr \notin KiteLongRates
    THEN 2..(MAX_BLOCK_END(sr) + KiteExtra)
    ELSE (MAX_BLOCK_END(sr) + 1)..(MAX_BLOCK_END(sr) + KiteExtra)

\* the host's buffers: sequential values on the left, their negatives on
\* the right, zeroes in the outputs (unit_test_for_kite.c)
\* A steady signal (every sample the same) is what the long buffers carry.
StereoMem(n, steady) ==
    [p \in {"Input_Left", "Input_Right", "Output_Left", "Output_Right"} |->
        IF p = "Input_Left" THEN [i \in 1..n |-> IF steady THEN 1 ELSE i]
        ELSE IF p = "Input_Right"
        THEN [i \in 1..n |-> IF steady THEN 0 - 1 ELSE 0 - i]
        ELSE [i \in 1..n |-> 0]]

\* what instantiate has allocated for an instance that was built
Built(p) ==
    IF p = "adt" THEN {"Adt", "block_run_off"}
    ELSE IF p = "reverse" THEN {"Reverse"}
    ELSE IF p = "kite" THEN {"Kite"}
    ELSE {}

\* GetRandomNaturalNumber has not been called on its own
NoDraw == low = 0 /\ high = 0 /\ word = 0 /\ rand_num = 0

NoLocals ==
    /\ out_index = 0 /\ in_index = 0 /\ start_position = 0
    /\ block_start_position = 0 /\ block_end_position = 0
    /\ samples_remaining = 0 /\ reverse = 0
    /\ instance = VALID /\ total_samples = 0 /\ oob = {} /\ draws = 0
    /\ blocks = <<>> /\ SAMPLE_OFFSET = 0 /\ run_off_index = 0
    /\ gen = NoGen /\ seed = zero /\ NoDraw
    /\ allocated = Built(plugin)

InitKite ==
    /\ plugin = "kite"
    /\ sample_rate \in KiteRates
    /\ bufLen \in KiteLens(sample_rate)
    /\ mem = StereoMem(bufLen, sample_rate \in KiteLongRates)
    /\ orig = mem
    /\ offset = 0
    /\ hist = <<>>
    /\ pc = "idle"
    /\ NoLocals

\* entry of run_Kite: the three guards, then the locals
run_Kite ==
    /\ plugin = "kite" /\ pc = "idle"
    /\ \E n \in {0, 1, bufLen}, inst \in {NULL, VALID} :
        /\ total_samples' = n
        /\ instance' = inst
        /\ orig' = mem
        /\ IF KiteAccepts(n, inst, sample_rate)
           THEN /\ pc' = "loop"
                /\ samples_remaining' = n
           ELSE /\ pc' = "returned"
                /\ UNCHANGED samples_remaining
    /\ UNCHANGED <<cfg, mem, oob, draws, out_index, in_index,
                   block_start_position, block_end_position, reverse,
                   revVars, adtVars>>

\* the loop test and the choice of the sub-block and of the reverse switch
Kite_Select ==
    /\ plugin = "kite" /\ pc = "loop"
    /\ IF ~ULt(out_index, total_samples)
       THEN /\ pc' = "returned"
            /\ UNCHANGED <<block_start_position, block_end_position, reverse,
                           draws>>
       ELSE LET MIN == MIN_BLOCK_START(sample_rate)
                MAX == MAX_BLOCK_END(sample_rate)
                whole == ULe(samples_remaining, MIN * 2)
                tail == ~whole /\ ULe(samples_remaining, MAX)
                lower1 == MIN
                upper1 == IF tail THEN samples_remaining - MIN ELSE MAX
            IN  \E raw1 \in IF whole THEN {0} ELSE Words(lower1, upper1) :
                 LET first == IF whole THEN 0
                              ELSE GetRandomNaturalNumber(lower1, upper1, raw1)
                     lower2 == first + MIN
                     upper2 ==
                        IF ULt(samples_remaining, first + MAX - MIN)
                        THEN samples_remaining
                        ELSE first + MAX - MIN - 1
                     fpe1 == ~whole /\ Span(lower1, upper1) = 0
                     fpe2 == ~whole /\ ~tail /\ Span(lower2, upper2) = 0
                 IN  \E raw2 \in IF whole \/ tail THEN {0}
                                 ELSE Words(lower2, upper2),
                        raw3 \in Words(0, 2) :
                      LET last ==
                            IF whole \/ tail THEN samples_remaining - 1
                            ELSE GetRandomNaturalNumber(lower2, upper2, raw2)
                          ndraws == IF whole THEN 0 ELSE IF tail THEN 1 ELSE 2
                      IN  IF fpe1 \/ fpe2
                          THEN /\ pc' = "crashed"
                               /\ draws' = Drawn(draws, IF fpe1 THEN 1 ELSE 2)
                               /\ UNCHANGED <<block_start_position,
                                              block_end_position, reverse>>
                          ELSE /\ pc' = "reverse"
                               /\ block_start_position' = first
                               /\ block_end_position' = last
                               /\ reverse' =
                                     GetRandomNaturalNumber(0, 2, raw3)
                               /\ draws' = Drawn(draws, ndraws + 1)
    /\ UNCHANGED <<cfg, call, mem, oob, out_index, in_index,
                   samples_remaining, revVars, adtVars>>

\* An access outside an array is undefined: the step either takes the
\* segmentation fault or goes on with what it read.
Faults(h) == IF h.oob = {} THEN {FALSE} ELSE BOOLEAN
After(h, fault, next) == IF h.crashed \/ fault THEN "crashed" ELSE next

\* the same reversing the left channel only
Kite_Reverse_LeftOnly ==
    /\ plugin = "kite" /\ pc = "reverse"
    /\ \E g \in OobValues :
        LET h0 == Heap(mem, {})
            h1 == ApplyReverse(h0, "Input_Left", block_start_position,
                               block_end_position, g)
            h == IF reverse = 0 THEN h1 ELSE h0
        IN  \E fault \in Faults(h) :
             /\ mem' = h.buf
             /\ oob' = oob \cup h.oob
             /\ pc' = After(h, fault, "emit")
    /\ UNCHANGED <<cfg, call, draws, out_index, in_index, kiteVars, revVars,
                   adtVars>>

\* if (reverse == 0) ApplyReverse on both input channels
Kite_Reverse ==
    /\ plugin = "kite" /\ pc = "reverse"
    /\ \E g \in OobValues :
        LET h0 == Heap(mem, {})
            h1 == ApplyReverse(h0, "Input_Left", block_start_position,
                               block_end_position, g)
            h2 == ApplyReverse(h1, "Input_Right", block_start_position,
                               block_end_position, g)
            h == IF reverse = 0 THEN h2 ELSE h0
        IN  \E fault \in Faults(h) :
             /\ mem' = h.buf
             /\ oob' = oob \cup h.oob
             /\ pc' = After(h, fault, "emit")
    /\ UNCHANGED <<cfg, call, draws, out_index, in_index, kiteVars, revVars,
                   adtVars>>

\* the same moving out_index on as soon as the sub-block is emitted
Kite_Emit_Advances ==
    /\ plugin = "kite" /\ pc = "emit"
    /\ \E g \in OobValues :
        LET h0 == Heap(mem, {})
            h1 == CopySubBlock(h0, "Output_Left", out_index, "Input_Left",
                               block_start_position, block_end_position, g)
            h == CopySubBlock(h1, "Output_Right", out_index, "Input_Right",
                              block_start_position, block_end_position, g)
        IN  \E fault \in Faults(h) :
             /\ mem' = h.buf
             /\ oob' = oob \cup h.oob
             /\ pc' = After(h, fault, "compact")
    /\ out_index' = out_index + (block_end_position - block_start_position + 1)
    /\ UNCHANGED <<cfg, call, draws, in_index, kiteVars, revVars, adtVars>>

\* append the sub-block to both output channels
Kite_Emit ==
    /\ plugin = "kite" /\ pc = "emit"
    /\ \E g \in OobValues :
        LET h0 == Heap(mem, {})
            h1 == CopySubBlock(h0, "Output_Left", out_index, "Input_Left",
                               block_start_position, block_end_position, g)
            h == CopySubBlock(h1, "Output_Right", out_index, "Input_Right",
                              block_start_position, block_end_position, g)
        IN  \E fault \in Faults(h) :
             /\ mem' = h.buf
             /\ oob' = oob \cup h.oob
             /\ pc' = After(h, fault, "compact")
    /\ UNCHANGED <<cfg, call, draws, out_index, in_index, kiteVars, revVars,
                   adtVars>>

\* write over the used section of both inputs, then advance
Kite_Compact ==
    /\ plugin = "kite" /\ pc = "compact"
    /\ LET samples_copied == block_end_position - block_start_position + 1
           source_start == SourceStart(samples_remaining,
                               block_start_position, block_end_position)
       IN  /\ \E g \in OobValues :
                LET h0 == Heap(mem, {})
                    h1 == CopySubBlock(h0, "Input_Left",
                              block_start_position, "Input_Left",
                              source_start, samples_remaining - 1, g)
                    h == CopySubBlock(h1, "Input_Right",
                             block_start_position, "Input_Right",
                             source_start, samples_remaining - 1, g)
                IN  \E fault \in Faults(h) :
                     /\ mem' = h.buf
                     /\ oob' = oob \cup h.oob
                     /\ pc' = After(h, fault, "loop")
           /\ out_index' = out_index + samples_copied
           /\ samples_remaining' = samples_remaining - samples_copied
    /\ UNCHANGED <<cfg, call, draws, in_index, block_start_position,
                   block_end_position, reverse, revVars, adtVars>>

NextKite == run_Kite \/ Kite_Select \/ Kite_Reverse \/ Kite_Emit \/ Kite_Compact

(***************************************************************************)
(* sb_esreveR.c                                                            *)
(***************************************************************************)
\* a minimum of 0.02 seconds in place of 0.2
MIN_SAMPLES_Hundredth(sr) == (2 * sr) \div 100

\* (unsigned long) (0.2 * sample_rate) and (unsigned long) (1.5 * sample_rate)
MIN_SAMPLES(sr) == (2 * sr) \div 10
MAX_SAMPLES(sr) == (15 * sr) \div 10

\* 0xFFFFFFFFFFFFFFFF
ALL_ONES == 0 - 1

ReverseAccepts(n, inst, sr) == ~(n <= 1) /\ inst # NULL /\ ~(sr < 10)

\* the same loop reading input_reader[out_index]: a copy, not a reversal
RECURSIVE ReverseLoop_Straight(_, _, _, _, _)
ReverseLoop_Straight(h, out, in, start, g) ==
    IF ~(ULe(start, in) /\ in # ALL_ONES) THEN [h |-> h, out |-> out, in |-> in]
    ELSE LET v == Rd(h.buf["Input"], out, g)
         IN  ReverseLoop_Straight(
                 [h EXCEPT !.buf["Output"] = Wr(@, out, v)],
                 out + 1, in - 1, start, g)

\* the same with "in_index > start_position": index start_position is left
RECURSIVE ReverseLoop_StopsEarly(_, _, _, _, _)
ReverseLoop_StopsEarly(h, out, in, start, g) ==
    IF ~(ULt(start, in) /\ in # ALL_ONES) THEN [h |-> h, out |-> out, in |-> in]
    ELSE LET v == Rd(h.buf["Input"], in, g)
             o1 == Touch([h EXCEPT !.oob = Touch(h, "Input", in)],
                         "Output", out)
         IN  ReverseLoop_StopsEarly([h EXCEPT !.buf["Output"] = Wr(@, out, v),
                                              !.oob = o1],
                                    out + 1, in - 1, start, g)

\* the inner while loop of run_Reverse: copy backwards from in_index down to
\* start_position
RECURSIVE ReverseLoop(_, _, _, _, _)
ReverseLoop(h, out, in, start, g) ==
    IF ~(ULe(start, in) /\ in # ALL_ONES) THEN [h |-> h, out |-> out, in |-> in]
    ELSE LET v == Rd(h.buf["Input"], in, g)
             o1 == Touch([h EXCEPT !.oob = Touch(h, "Input", in)],
                         "Output", out)
         IN  ReverseLoop([h EXCEPT !.buf["Output"] = Wr(@, out, v),
                                   !.oob = o1],
                         out + 1, in - 1, start, g)

MonoMem(n) ==
    [p \in {"Input", "Output"} |->
        IF p = "Input" THEN [i \in 1..n |-> i] ELSE [i \in 1..n |-> 0]]

InitReverse ==
    /\ plugin = "reverse"
    /\ sample_rate \in ReverseRates
    /\ bufLen \in 2..MaxRevLen
    /\ mem = MonoMem(bufLen)
    /\ orig = mem
    /\ offset = 0
    /\ hist = <<>>
    /\ pc = "idle"
    /\ NoLocals

\* entry of run_Reverse: the three guards, then the locals
run_Reverse ==
    /\ plugin = "reverse" /\ pc = "idle"
    /\ \E n \in {0, 1, bufLen}, inst \in {NULL, VALID} :
        /\ total_samples' = n
        /\ instance' = inst
        /\ orig' = mem
        /\ pc' = IF ReverseAccepts(n, inst, sample_rate)
                 THEN "loop" ELSE "returned"
    /\ UNCHANGED <<cfg, mem, oob, draws, out_index, in_index, kiteVars,
                   revVars, adtVars>>

\* one pass of the outer loop: choose the end of the sub-block, copy it
\* backwards, move the start position
Reverse_Block ==
    /\ plugin = "reverse" /\ pc = "loop"
    /\ IF ~ULt(out_index, total_samples)
       THEN /\ pc' = "returned"
            /\ UNCHANGED <<mem, oob, draws, out_index, in_index, revVars>>
       ELSE LET MIN == MIN_SAMPLES(sample_rate)
                MAX == MAX_SAMPLES(sample_rate)
                rand_num_lower_bound == start_position + MIN
                toEnd == \/ ULe(total_samples, MIN)
                         \/ ULe(total_samples - MIN, rand_num_lower_bound)
                rand_num_upper_bound ==
                    IF ULt(total_samples - MIN, start_position + MAX)
                    THEN total_samples - MIN
                    ELSE start_position + MAX
            IN  \E raw \in IF toEnd THEN {0}
                           ELSE Words(rand_num_lower_bound,
                                      rand_num_upper_bound),
                   g \in OobValues :
                 LET random_num ==
                        IF toEnd THEN 0
                        ELSE GetRandomNaturalNumber(rand_num_lower_bound,
                                 rand_num_upper_bound, raw)
                     first_in == IF toEnd THEN total_samples - 1
                                 ELSE random_num - 1
                     r == ReverseLoop(Heap(mem, {}), out_index, first_in,
                                      start_position, g)
                     fpe == ~toEnd /\ Span(rand_num_lower_bound,
                                           rand_num_upper_bound) = 0
                 IN  IF fpe
                     THEN /\ pc' = "crashed"
                          /\ draws' = Drawn(draws, 1)
                          /\ UNCHANGED <<mem, oob, out_index, in_index,
                                         revVars>>
                     ELSE \E fault \in Faults(r.h) :
                           /\ mem' = r.h.buf
                           /\ oob' = oob \cup r.h.oob
                           /\ pc' = After(r.h, fault, "loop")
                           /\ out_index' = r.out
                           /\ in_index' = r.in
                           /\ start_position' = random_num
                           /\ blocks' = Append(blocks,
                                               <<start_position, first_in>>)
                           /\ draws' = Drawn(draws, IF toEnd THEN 0 ELSE 1)
    /\ UNCHANGED <<cfg, call, kiteVars, adtVars>>

NextReverse == run_Reverse \/ Reverse_Block

(***************************************************************************)
(* sb_adt.c                                                                *)
(***************************************************************************)
MAX_OFFSET == 200
MIN_OFFSET == 5

\* the same without the ceiling of 200
LIMIT_BETWEEN_5_AND_200_NoCeiling(x) == IF x < 5 THEN 5 ELSE x

\* (((x) < 5) ? 5 : (((x) > 200) ? 200 : (x)))
LIMIT_BETWEEN_5_AND_200(x) == IF x < 5 THEN 5 ELSE IF x > 200 THEN 200 ELSE x

\* (int) (sample_rate * (clamped offset / 1000.0f)); the float product is
\* the exact one at the sample rates of AdtRates
GetOffsetInSamples(sr, off) == (sr * LIMIT_BETWEEN_5_AND_200(off)) \div 1000

\* the same with "total_samples < 1" for the first guard
AdtAccepts_One(n, inst, sr) == ~(n < 1) /\ inst # NULL /\ ~(sr < 1000)

AdtAccepts(n, inst, sr) == ~(n <= 1) /\ inst # NULL /\ ~(sr < 1000)

\* for (in_index = 0; in_index < total_samples; ++in_index)
\*     output[out_index++] = input[in_index];
RECURSIVE CopyLeft(_, _, _, _, _)
CopyLeft(h, out, in, n, g) ==
    IF ~ULt(in, n) THEN [h |-> h, out |-> out, in |-> in]
    ELSE LET v == Rd(h.buf["Input_Left"], in, g)
             o1 == Touch([h EXCEPT !.oob = Touch(h, "Input_Left", in)],
                         "Output_Left", out)
         IN  CopyLeft([h EXCEPT !.buf["Output_Left"] = Wr(@, out, v),
                                !.oob = o1], out + 1, in + 1, n, g)

\* for (run_off_index = 0; run_off_index < SAMPLE_OFFSET; ++run_off_index)
\*     output[out_index++] = run_off[run_off_index];
\* the passes from run_off_index = ro up to sample_offset - 1, split in
\* halves
RECURSIVE CopyRunOff(_, _, _, _, _)
CopyRunOff(h, out, ro, sample_offset, g) ==
    IF ~(ro < sample_offset) THEN [h |-> h, out |-> out, ro |-> ro]
    ELSE IF sample_offset - ro = 1
    THEN LET v == Rd(h.buf["block_run_off"], ro, g)
             o1 == Touch([h EXCEPT !.oob = Touch(h, "block_run_off", ro)],
                         "Output_Right", out)
         IN  [h |-> [h EXCEPT !.buf["Output_Right"] = Wr(@, out, v),
                              !.oob = o1],
              out |-> out + 1, ro |-> ro + 1]
    ELSE LET Rest(first) == CopyRunOff(first.h, first.out, first.ro,
                                       sample_offset, g)
         IN  Strict(CopyRunOff(h, out, ro, (ro + sample_offset) \div 2, g),
                    Rest)

\* for (out_index = out_index; out_index < total_samples; ++out_index)
\*     output[out_index] = input[in_index++];
RECURSIVE CopyRight(_, _, _, _, _)
CopyRight(h, out, in, n, g) ==
    IF ~ULt(out, n) THEN [h |-> h, out |-> out, in |-> in]
    ELSE LET v == Rd(h.buf["Input_Right"], in, g)
             o1 == Touch([h EXCEPT !.oob = Touch(h, "Input_Right", in)],
                         "Output_Right", out)
         IN  CopyRight([h EXCEPT !.buf["Output_Right"] = Wr(@, out, v),
                                 !.oob = o1], out + 1, in + 1, n, g)

\* for (in_index = in_index; in_index < total_samples; ++in_index)
\*     run_off[run_off_index++] = input[in_index];
RECURSIVE SaveRunOff(_, _, _, _, _)
SaveRunOff(h, ro, in, n, g) ==
    IF ~ULt(in, n) THEN [h |-> h, ro |-> ro, in |-> in]
    ELSE LET v == Rd(h.buf["Input_Right"], in, g)
             o1 == Touch([h EXCEPT !.oob = Touch(h, "Input_Right", in)],
                         "block_run_off", ro)
         IN  SaveRunOff([h EXCEPT !.buf["block_run_off"] = Wr(@, ro, v),
                                  !.oob = o1], ro + 1, in + 1, n, g)

\* the k-th sample of the continuous stream on the delayed (right) channel
\* is k, the left channel carries its negative; from is the count of samples
\* the earlier blocks held
AdtBlock(m, n, from) ==
    [m EXCEPT !["Input_Left"] = [i \in 1..n |-> 0 - (from + i)],
              !["Input_Right"] = [i \in 1..n |-> from + i]]

\* instantiate_Adt: the run-off buffer is allocated for the maximum offset
\* and not initialised
AdtMem(n, sr) ==
    [p \in {"Input_Left", "Input_Right", "Output_Left", "Output_Right",
            "block_run_off"} |->
        IF p = "block_run_off"
        THEN [i \in 1..GetOffsetInSamples(sr, MAX_OFFSET) |-> 99]
        ELSE [i \in 1..n |-> 0]]

NoHist == [in |-> <<>>, out |-> <<>>, offs |-> {}, calls |-> 0]

InitAdt ==
    /\ plugin = "adt"
    /\ sample_rate \in AdtRates
    /\ bufLen \in 2..MaxAdtLen
    /\ mem = AdtMem(bufLen, sample_rate)
    /\ orig = mem
    /\ offset = 0
    /\ hist = NoHist
    /\ pc = "created"
    /\ NoLocals

\* the same clearing the run-off buffer for the minimum offset only
activate_Adt_MinimumOnly ==
    /\ plugin = "adt" /\ pc \in {"created", "returned"}
    /\ LET sample_offset == GetOffsetInSamples(sample_rate, MIN_OFFSET)
       IN  mem' = [mem EXCEPT !["block_run_off"] =
                      [i \in DOMAIN @ |-> IF i <= sample_offset THEN 0
                                          ELSE @[i]]]
    /\ hist' = [NoHist EXCEPT !.calls = hist.calls]
    /\ pc' = "active"
    /\ UNCHANGED <<cfg, call, oob, draws, out_index, in_index, kiteVars,
                   revVars, offset, SAMPLE_OFFSET, run_off_index>>

\* memset(adt->block_run_off, 0, sizeof (LADSPA_Data) * sample_offset)
activate_Adt ==
    /\ plugin = "adt" /\ pc \in {"created", "returned"}
    /\ LET sample_offset == GetOffsetInSamples(sample_rate, MAX_OFFSET)
       IN  mem' = [mem EXCEPT !["block_run_off"] =
                      [i \in DOMAIN @ |-> IF i <= sample_offset THEN 0
                                          ELSE @[i]]]
    /\ hist' = [NoHist EXCEPT !.calls = hist.calls]
    /\ pc' = "active"
    /\ UNCHANGED <<cfg, call, oob, draws, out_index, in_index, kiteVars,
                   revVars, offset, SAMPLE_OFFSET, run_off_index>>

\* the host between two calls: the next block of the stream is in the input
\* buffers and the offset control port has its value
Host_NextBlock ==
    /\ plugin = "adt" /\ pc \in {"active", "returned"}
    /\ hist.calls < MaxCalls
    /\ mem' = AdtBlock(mem, bufLen, Len(hist.in))
    /\ offset' \in OffsetControls
    /\ hist' = [hist EXCEPT !.calls = @ + 1]
    /\ pc' = "idle"
    /\ UNCHANGED <<cfg, call, oob, draws, out_index, in_index, kiteVars,
                   revVars, SAMPLE_OFFSET, run_off_index>>

\* entry of run_Adt: the three guards, then SAMPLE_OFFSET and the indexes
run_Adt ==
    /\ plugin = "adt" /\ pc = "idle"
    /\ \E n \in {0, 1, bufLen}, inst \in {NULL, VALID} :
        /\ total_samples' = n
        /\ instance' = inst
        /\ orig' = mem
        /\ IF AdtAccepts(n, inst, sample_rate)
           THEN /\ pc' = "left"
                /\ SAMPLE_OFFSET' = GetOffsetInSamples(sample_rate, offset)
                /\ in_index' = 0
                /\ out_index' = 0
                /\ run_off_index' = 0
           ELSE /\ pc' = "returned"
                /\ UNCHANGED <<SAMPLE_OFFSET, in_index, out_index,
                               run_off_index>>
    /\ UNCHANGED <<cfg, mem, oob, draws, kiteVars, revVars, offset, hist>>

\* copy all left channel input buffer into left channel output buffer
Adt_CopyLeft ==
    /\ plugin = "adt" /\ pc = "left"
    /\ \E g \in OobValues :
        LET r == CopyLeft(Heap(mem, {}), out_index, 0, total_samples, g)
        IN  \E fault \in Faults(r.h) :
             /\ mem' = r.h.buf
             /\ oob' = oob \cup r.h.oob
             /\ pc' = After(r.h, fault, "runoff")
             /\ in_index' = r.in
             /\ out_index' = r.out
    /\ UNCHANGED <<cfg, call, draws, kiteVars, revVars, adtVars>>

\* copy all samples from the run off buffer into the right channel output
Adt_CopyRunOff ==
    /\ plugin = "adt" /\ pc = "runoff"
    /\ \E g \in OobValues :
        LET r == CopyRunOff(Heap(mem, {}), 0, 0, SAMPLE_OFFSET, g)
        IN  \E fault \in Faults(r.h) :
             /\ mem' = r.h.buf
             /\ oob' = oob \cup r.h.oob
             /\ pc' = After(r.h, fault, "right")
             /\ out_index' = r.out
             /\ run_off_index' = r.ro
    /\ UNCHANGED <<cfg, call, draws, in_index, kiteVars, revVars, offset,
                   SAMPLE_OFFSET, hist>>

\* copy right channel input buffer into the rest of right channel output
Adt_CopyRight ==
    /\ plugin = "adt" /\ pc = "right"
    /\ \E g \in OobValues :
        LET r == CopyRight(Heap(mem, {}), out_index, 0, total_samples, g)
        IN  \E fault \in Faults(r.h) :
             /\ mem' = r.h.buf
             /\ oob' = oob \cup r.h.oob
             /\ pc' = After(r.h, fault, "save")
             /\ out_index' = r.out
             /\ in_index' = r.in
    /\ UNCHANGED <<cfg, call, draws, kiteVars, revVars, adtVars>>

\* copy the left over right channel input into the run off buffer; return
Adt_SaveRunOff ==
    /\ plugin = "adt" /\ pc = "save"
    /\ \E g \in OobValues :
        LET r == SaveRunOff(Heap(mem, {}), 0, in_index, total_samples, g)
        IN  \E fault \in Faults(r.h) :
             /\ mem' = r.h.buf
             /\ oob' = oob \cup r.h.oob
             /\ pc' = After(r.h, fault, "returned")
             /\ in_index' = r.in
             /\ run_off_index' = r.ro
    /\ hist' = [hist EXCEPT
                  !.in = @ \o SubSeq(mem["Input_Right"], 1, total_samples),
                  !.out = @ \o SubSeq(mem["Output_Right"], 1, total_samples),
                  !.offs = @ \cup {SAMPLE_OFFSET}]
    /\ UNCHANGED <<cfg, call, draws, out_index, kiteVars, revVars, offset,
                   SAMPLE_OFFSET>>

NextAdt ==
    \/ activate_Adt \/ Host_NextBlock \/ run_Adt \/ Adt_CopyLeft
    \/ Adt_CopyRunOff \/ Adt_CopyRight \/ Adt_SaveRunOff

Init == InitKite \/ InitReverse \/ InitAdt

Next == NextKite \/ NextReverse \/ NextAdt

Spec == Init /\ [][Next]_vars

\* one plugin at a time
SpecKite == InitKite /\ [][NextKite]_vars
SpecReverse == InitReverse /\ [][NextReverse]_vars
SpecAdt == InitAdt /\ [][NextAdt]_vars

(***************************************************************************)
(* The helper functions called on their own, as unit_test_for_kite.c calls *)
(* them.  pc counts the calls: "idle", "once", "twice".                    *)
(***************************************************************************)
\* the variables a helper called on its own does not use
UnitRest ==
    /\ out_index = 0 /\ in_index = 0 /\ start_position = 0
    /\ samples_remaining = 0 /\ reverse = 0
    /\ instance = VALID /\ total_samples = 0 /\ oob = {} /\ draws = 0
    /\ blocks = <<>> /\ SAMPLE_OFFSET = 0 /\ run_off_index = 0
    /\ gen = NoGen /\ seed = zero
    /\ allocated = {}
    /\ sample_rate = 0 /\ offset = 0 /\ hist = <<>>

\* ApplyReverse(buffer, start, end) on a buffer of sequential samples, for
\* every sub-range of the buffer
InitApplyReverse ==
    /\ plugin = "ApplyReverse"
    /\ bufLen \in 1..MaxUnitLen
    /\ mem = [p \in {"buffer"} |-> [i \in 1..bufLen |-> i]]
    /\ orig = mem
    /\ block_end_position \in 0..(bufLen - 1)
    /\ block_start_position \in 0..block_end_position
    /\ pc = "idle"
    /\ UnitRest /\ NoDraw

Call_ApplyReverse ==
    /\ plugin = "ApplyReverse" /\ pc \in {"idle", "once"}
    /\ \E g \in OobValues :
        LET h == ApplyReverse(Heap(mem, {}), "buffer", block_start_position,
                              block_end_position, g)
        IN  \E fault \in Faults(h) :
             /\ mem' = h.buf
             /\ oob' = oob \cup h.oob
             /\ pc' = After(h, fault, IF pc = "idle" THEN "once" ELSE "twice")
    /\ UNCHANGED <<cfg, call, draws, out_index, in_index, kiteVars, revVars,
                   adtVars>>

SpecApplyReverse == InitApplyReverse /\ [][Call_ApplyReverse]_vars

(***************************************************************************)
(* instantiate_Kite, instantiate_Reverse, instantiate_Adt: pc is "new"     *)
(* before the call; malloc gives a block or NULL.                          *)
(***************************************************************************)
InitNew ==
    /\ plugin \in {"kite", "reverse", "adt"}
    /\ sample_rate \in 0..MaxRate
    /\ pc = "new"
    /\ instance = NULL
    /\ allocated = {}
    /\ bufLen = 0 /\ mem = <<>> /\ orig = mem
    /\ out_index = 0 /\ in_index = 0 /\ start_position = 0
    /\ block_start_position = 0 /\ block_end_position = 0
    /\ samples_remaining = 0 /\ reverse = 0
    /\ total_samples = 0 /\ oob = {} /\ draws = 0
    /\ blocks = <<>> /\ SAMPLE_OFFSET = 0 /\ run_off_index = 0
    /\ offset = 0 /\ hist = <<>>
    /\ gen = NoGen /\ seed = zero /\ NoDraw

\* kite = malloc(...); if (kite) kite->sample_rate = sample_rate; return kite;
instantiate_Kite ==
    /\ plugin = "kite" /\ pc = "new"
    /\ \E kite \in {NULL, VALID} :
        /\ instance' = kite
        /\ allocated' = IF kite # NULL THEN {"Kite"} ELSE {}
        /\ pc' = IF kite # NULL THEN "idle" ELSE "failed"
    /\ UNCHANGED <<plugin, sample_rate, bufLen, gen, seed, low, high, word,
                   rand_num, total_samples, orig, mem, oob, draws, out_index,
                   in_index, kiteVars, revVars, adtVars>>

\* reverse = malloc(...); reverse->sample_rate = sample_rate; return reverse;
\* the store through a null pointer is undefined: the call faults, or goes
\* on and returns the null pointer
instantiate_Reverse ==
    /\ plugin = "reverse" /\ pc = "new"
    /\ \E rev \in {NULL, VALID} :
        /\ instance' = rev
        /\ allocated' = IF rev # NULL THEN {"Reverse"} ELSE {}
        /\ IF rev # NULL
           THEN pc' = "idle" /\ UNCHANGED oob
           ELSE /\ oob' = oob \cup {"Reverse"}
                /\ pc' \in {"crashed", "failed"}
    /\ UNCHANGED <<plugin, sample_rate, bufLen, gen, seed, low, high, word,
                   rand_num, total_samples, orig, mem, draws, out_index,
                   in_index, kiteVars, revVars, adtVars>>

\* adt = malloc(...); if (adt) { block_run_off = malloc(...);
\* if (!block_run_off) { free(adt); return NULL; } ... } return adt;
instantiate_Adt ==
    /\ plugin = "adt" /\ pc = "new"
    /\ \E adt \in {NULL, VALID}, block_run_off \in {NULL, VALID} :
        LET built == adt # NULL /\ block_run_off # NULL
        IN  /\ instance' = IF built THEN VALID ELSE NULL
            /\ allocated' = IF built THEN {"Adt", "block_run_off"} ELSE {}
            /\ mem' = IF built
                      THEN [p \in {"block_run_off"} |->
                              [i \in 1..GetOffsetInSamples(sample_rate,
                                                           MAX_OFFSET) |-> 99]]
                      ELSE mem
            /\ pc' = IF built THEN "created" ELSE "failed"
    /\ UNCHANGED <<plugin, sample_rate, bufLen, gen, seed, low, high, word,
                   rand_num, total_samples, orig, oob, draws, out_index,
                   in_index, kiteVars, revVars, adtVars>>

SpecInstantiate ==
    InitNew /\ [][instantiate_Kite \/ instantiate_Reverse
                    \/ instantiate_Adt]_vars

\* values next to both ends of unsigned long
Edge == (0 - MaxEdge)..MaxEdge

InitRandom ==
    /\ plugin = "GetRandomNaturalNumber"
    /\ low \in Edge /\ high \in Edge
    /\ word = 0 /\ rand_num = 0
    /\ bufLen = 0
    /\ mem = <<>>
    /\ orig = mem
    /\ block_start_position = 0 /\ block_end_position = 0
    /\ pc = "idle"
    /\ UnitRest

\* one call; the division by a zero span does not return
Call_GetRandomNaturalNumber ==
    /\ plugin = "GetRandomNaturalNumber" /\ pc = "idle"
    /\ \E raw \in (0 - MaxEdge)..MaxRaw :
        /\ word' = raw
        /\ IF Span(low, high) = 0
           THEN pc' = "crashed" /\ UNCHANGED rand_num
           ELSE /\ pc' = "once"
                /\ rand_num' = GetRandomNaturalNumber(low, high, raw)
    /\ draws' = Drawn(draws, 1)
    /\ UNCHANGED <<plugin, sample_rate, bufLen, gen, seed, low, high,
                   allocated, call, mem, oob, out_index, in_index, kiteVars, revVars, adtVars>>

SpecRandom == InitRandom /\ [][Call_GetRandomNaturalNumber]_vars

\* the seeds handed to xor4096i: zero and three others
Seeds == {zero, Word(0, 0, 0, 1), Word(0, 0, 0, 2), Word(0, 0, 0, 3)}

InitXor ==
    /\ plugin = "xor4096i"
    /\ bufLen = 0
    /\ mem = <<>>
    /\ orig = mem
    /\ block_start_position = 0 /\ block_end_position = 0
    /\ pc = "idle"
    /\ UnitRest /\ NoDraw

Call_xor4096i ==
    /\ plugin = "xor4096i" /\ draws < MaxGenCalls
    /\ \E sd \in Seeds :
        /\ seed' = sd
        /\ gen' = xor4096i(gen, sd)
    /\ draws' = draws + 1
    /\ UNCHANGED <<plugin, sample_rate, bufLen, low, high, word, rand_num,
                   allocated, call, pc, mem, oob, out_index, in_index, kiteVars, revVars,
                   adtVars>>

SpecXor == InitXor /\ [][Call_xor4096i]_vars

(***************************************************************************)
(* Properties                                                              *)
(***************************************************************************)
Channels == {"Left", "Right"}
In(ch) == IF ch = "Left" THEN "Input_Left" ELSE "Input_Right"
Out(ch) == IF ch = "Left" THEN "Output_Left" ELSE "Output_Right"

\* the arguments of the call in progress (or just returned) are acceptable
KiteCallOk == total_samples >= 2 /\ instance = VALID /\ sample_rate > 0
ReverseCallOk == total_samples >= 2 /\ instance = VALID /\ sample_rate >= 10
AdtCallOk == total_samples >= 2 /\ instance = VALID /\ sample_rate >= 1000

\* run_Kite has chosen a sub-block and not yet advanced past it
KiteInBlock == plugin = "kite" /\ pc \in {"reverse", "emit", "compact"}

\* C1: when an accepted run_Kite call has returned, each output channel
\* holds exactly the samples its input channel held at entry, rearranged
\* (so every output index has been written).
C1_KiteOutputIsRearrangedInput ==
    (plugin = "kite" /\ pc = "returned" /\ KiteCallOk)
        => \A ch \in Channels :
              BagOfSeq(mem[Out(ch)]) = BagOfSeq(orig[In(ch)])

\* C2: in every iteration of run_Kite's loop the chosen sub-block satisfies
\* 0 <= block_start_position <= block_end_position <= samples_remaining - 1,
\* and beyond the largest window the end is at most
\* min(samples_remaining, start + maxWindow - minStart) - 1.
C2_KiteBlockInsideRemaining ==
    KiteInBlock =>
        LET MIN == sample_rate \div 4
            MAX == MIN + 2 * sample_rate
            far == block_start_position + MAX - MIN
        IN  /\ 0 <= block_start_position
            /\ block_start_position <= block_end_position
            /\ block_end_position <= samples_remaining - 1
            /\ samples_remaining > MAX =>
                  block_end_position <=
                     (IF samples_remaining < far THEN samples_remaining
                      ELSE far) - 1

\* C3: the sub-blocks run_Reverse processes are contiguous and cover
\* [0, N-1]: the first starts at 0, each next one starts one past the end of
\* the one before, each has start <= end, and when the call has returned the
\* last one ends at N-1.
C3_ReverseBlocksCover ==
    (plugin = "reverse" /\ ReverseCallOk /\ pc \in {"loop", "returned"}) =>
        /\ \A i \in 1..Len(blocks) :
              /\ blocks[i][1] <= blocks[i][2]
              /\ blocks[i][1] = (IF i = 1 THEN 0 ELSE blocks[i - 1][2] + 1)
              /\ blocks[i][2] <= total_samples - 1
        /\ out_index = (IF blocks = <<>> THEN 0
                        ELSE blocks[Len(blocks)][2] + 1)
        /\ pc = "returned" =>
              /\ blocks # <<>>
              /\ blocks[Len(blocks)][2] = total_samples - 1

\* a returned run_Reverse call that went through at least three sub-blocks
C3_Witness ==
    /\ plugin = "reverse" /\ pc = "returned" /\ ReverseCallOk
    /\ Len(blocks) >= 3

\* C4: over consecutive accepted run_Adt calls since activation that all
\* used the same offset o, the delayed-channel outputs put end to end are
\* o zeroes followed by the delayed-channel inputs, cut to the same length.
C4_AdtShiftsByOffset ==
    (plugin = "adt" /\ Cardinality(hist.offs) = 1) =>
        \A o \in hist.offs :
            hist.out = SubSeq([i \in 1..o |-> 0] \o hist.in, 1, Len(hist.in))

\* C5: an accepted run_Adt call reads and writes every buffer only inside
\* [0, N-1] (the buffers the host connected have N elements).
C5_AdtStaysInsideBuffers ==
    plugin = "adt" => oob = {}

\* the samples of array s at the C indexes a..b
Region(s, a, b) == [k \in 1..(b - a + 1) |-> s[a + k]]

\* C6: a compaction step after the emission of a sub-block [start, end]
\* inside [0, samples_remaining - 1] leaves in the new unconsumed region
\* [0, samples_remaining - L - 1] exactly the samples of the old region
\* without the emitted ones, and copies forwards from a source that starts
\* strictly above the destination.
C6_KiteCompactionKeepsSamples ==
    [][ ( /\ plugin = "kite" /\ pc = "compact" /\ pc' = "loop"
          /\ 0 <= block_start_position
          /\ block_start_position <= block_end_position
          /\ block_end_position <= samples_remaining - 1 )
        => /\ samples_remaining' = samples_remaining
                 - (block_end_position - block_start_position + 1)
           /\ \A ch \in Channels :
                 BagOfSeq(Region(mem'[In(ch)], 0, samples_remaining' - 1)
                          \o Region(mem[In(ch)], block_start_position,
                                    block_end_position))
                    = BagOfSeq(Region(mem[In(ch)], 0,
                                      samples_remaining - 1))
           /\ block_start_position
                 < SourceStart(samples_remaining, block_start_position,
                               block_end_position)
      ]_vars

\* a compaction has just moved samples of the tail over an emitted sub-block
\* that lay strictly inside the remaining buffer
C6_Witness ==
    /\ plugin = "kite" /\ pc = "loop" /\ out_index > 0
    /\ 0 <= block_start_position
    /\ block_start_position <= block_end_position
    /\ block_end_position < out_index + samples_remaining - 1
    /\ block_start_position < samples_remaining
    /\ sample_rate \notin KiteLongRates
    /\ mem["Input_Left"][block_start_position + 1]
          # orig["Input_Left"][block_start_position + 1]

\* the arguments of the last call are ones the plugin must refuse
BadCall ==
    \/ total_samples <= 1
    \/ instance = NULL
    \/ plugin = "adt" /\ sample_rate < 1000
    \/ plugin = "reverse" /\ sample_rate < 10
    \/ plugin = "kite" /\ sample_rate = 0

C8_ReverseReversesEachBlock ==
    (plugin = "reverse" /\ pc = "returned" /\ ReverseCallOk) =>
        /\ \A i \in 1..Len(blocks) :
              \A k \in 0..(blocks[i][2] - blocks[i][1]) :
                 mem["Output"][blocks[i][1] + k + 1]
                    = orig["Input"][blocks[i][2] - k + 1]
        /\ total_samples <= 2 * ((2 * sample_rate) \div 10) =>
              /\ Len(blocks) = 1
              /\ draws = 0
              /\ \A i \in 0..(total_samples - 1) :
                    mem["Output"][i + 1] = orig["Input"][total_samples - i]

\* a returned call that reversed two sub-blocks or more
C8_Witness ==
    /\ plugin = "reverse" /\ pc = "returned" /\ ReverseCallOk
    /\ Len(blocks) >= 2
    /\ mem["Output"][1] = orig["Input"][blocks[1][2] + 1]

\* C9: every sub-block of run_Reverse but the final one (the one that ends
\* at N-1) has a length in [minLen, maxLen]; no sub-block is longer than
\* maxLen.
C9_ReverseBlockLengths ==
    (plugin = "reverse" /\ ReverseCallOk) =>
        \A i \in 1..Len(blocks) :
            LET len == blocks[i][2] - blocks[i][1] + 1
            IN  /\ len <= (15 * sample_rate) \div 10
                /\ blocks[i][2] # total_samples - 1 =>
                      len >= (2 * sample_rate) \div 10

\* a first sub-block of the maximum length, followed by another one
C9_Witness ==
    /\ plugin = "reverse" /\ ReverseCallOk /\ Len(blocks) >= 2
    /\ blocks[1][2] - blocks[1][1] + 1 = (15 * sample_rate) \div 10

\* C10: every sub-block run_Kite chooses while more than 2 * minStart
\* samples remain has a length of at least minStart and at most
\* 2 * sample_rate.
C10_KiteBlockLengths ==
    (KiteInBlock /\ samples_remaining > 2 * (sample_rate \div 4)) =>
        LET len == block_end_position - block_start_position + 1
        IN  /\ len >= sample_rate \div 4
            /\ len <= 2 * sample_rate

\* C11: ApplyReverse on a sub-range with start <= end returns; one call
\* leaves buffer[start + k] = old buffer[end - k] for every k and every
\* element outside [start, end] as it was; a second call on the same
\* sub-range restores the buffer.
C11_ApplyReverseTwiceRestores ==
    plugin = "ApplyReverse" =>
        /\ pc # "crashed"
        /\ pc = "once" =>
              \A i \in 0..(bufLen - 1) :
                 mem["buffer"][i + 1] =
                    IF block_start_position <= i /\ i <= block_end_position
                    THEN orig["buffer"][block_end_position
                                          - (i - block_start_position) + 1]
                    ELSE orig["buffer"][i + 1]
        /\ pc = "twice" => mem = orig

\* C12: once the generator is initialised, xor4096i(0) moves the cursor i
\* one position on modulo r, replaces the array word at the new cursor and
\* no other, adds the Weyl constant to w and leaves weyl alone: it does not
\* run the initialisation again.
C12_ZeroSeedAdvancesOnly ==
    [][(plugin = "xor4096i" /\ gen.i >= 0 /\ seed' = zero /\ draws' # draws) =>
          /\ gen'.i = (gen.i + 1) % gen_r
          /\ \A k \in 0..(gen_r - 1) :
                k # gen'.i => gen'.x[k + 1] = gen.x[k + 1]
          /\ gen'.w = Add(gen.w, WEYL)
          /\ gen'.weyl = gen.weyl]_vars

\* two calls in a row with a zero seed have followed a seeded call
C12_Witness ==
    /\ plugin = "xor4096i" /\ seed = zero /\ draws = 4
    /\ gen.i = 2 /\ gen.weyl = WEYL

\* C14: for lower_bound <= upper_bound (as unsigned long) whose span
\* upper_bound - lower_bound + 1 has not wrapped to 0,
\* GetRandomNaturalNumber returns a number r with
\* lower_bound <= r <= upper_bound, and r - lower_bound is the word of the
\* generator reduced modulo the span.
C14_RandomWithinBounds ==
    (plugin = "GetRandomNaturalNumber" /\ ULe(low, high)
                                       /\ ~(low = 0 /\ high = 0 - 1)) =>
        /\ pc # "crashed"
        /\ pc = "once" =>
              /\ ULe(low, rand_num) /\ ULe(rand_num, high)
              /\ (low >= 0 /\ high >= 0 /\ word >= 0) =>
                    \E q \in 0..MaxRaw :
                       word = q * (high - low + 1) + (rand_num - low)

\* a span of 2^64 - 2 (the bounds 2 and 2^64 - 1) and the word 2^64 - 1
C14_Witness ==
    /\ plugin = "GetRandomNaturalNumber" /\ pc = "once"
    /\ low = 2 /\ high = 0 - 1 /\ word = 0 - 1 /\ rand_num = 3

\* C15: when an accepted run_Adt call with offset o returns, the first o
\* elements of the run-off buffer are the last o samples of the call's
\* delayed-channel input, input[N-o .. N-1] in order; and a step of the call
\* writes the run-off buffer only after its o old elements have been copied
\* to the start of the delayed-channel output.
C15_RunOffHoldsLastInputs ==
    [][plugin = "adt" =>
         /\ (pc = "save" /\ pc' = "returned") =>
               /\ total_samples >= SAMPLE_OFFSET
               /\ \A k \in 0..(SAMPLE_OFFSET - 1) :
                     mem'["block_run_off"][k + 1] =
                        orig["Input_Right"][total_samples - SAMPLE_OFFSET
                                              + k + 1]
         /\ (pc \in {"left", "runoff", "right", "save"}
               /\ mem'["block_run_off"] # mem["block_run_off"]) =>
               /\ pc = "save"
               /\ \A k \in 0..(SAMPLE_OFFSET - 1) :
                     /\ k < total_samples
                     /\ mem["Output_Right"][k + 1] =
                           orig["block_run_off"][k + 1]]_vars

\* C16: activate_Adt leaves every element of the run-off buffer, over its
\* whole capacity (the samples of the 200 ms maximum offset), zero whatever
\* earlier run_Adt calls stored there; and in the first accepted call after
\* an activation the first o samples of the delayed-channel output are zero,
\* for every offset o.
C16_ActivateClearsRunOff ==
    plugin = "adt" =>
        /\ pc = "active" =>
              /\ Len(mem["block_run_off"]) = (sample_rate * MAX_OFFSET) \div 1000
              /\ \A i \in DOMAIN mem["block_run_off"] :
                    mem["block_run_off"][i] = 0
        /\ (pc = "returned" /\ AdtCallOk /\ Len(hist.in) = total_samples) =>
              \A k \in 0..(SAMPLE_OFFSET - 1) :
                 k < total_samples => mem["Output_Right"][k + 1] = 0

\* the third call is the first one after an activation, and it found the
\* second call's delayed samples at the start of the output buffer
C16_Witness ==
    /\ plugin = "adt" /\ pc = "returned" /\ AdtCallOk
    /\ Len(hist.in) = total_samples /\ hist.calls = 3
    /\ SAMPLE_OFFSET = 6
    /\ orig["Output_Right"][1] > 0
    /\ mem["Output_Right"][1] = 0

\* C17: when an allocation of instantiate_Adt, instantiate_Reverse or
\* instantiate_Kite fails, the function returns NULL, has written through no
\* null pointer, and leaves nothing allocated.
C17_FailedInstantiateReturnsNull ==
    (plugin \in {"kite", "reverse", "adt"} /\ pc \in {"failed", "crashed"}) =>
        /\ pc = "failed"
        /\ instance = NULL
        /\ oob = {}
        /\ allocated = {}

\* C18: the emit step of run_Kite, for a sub-block [start, end] inside the
\* remaining buffer and any output cursor out_index, leaves
\* Output[out_index + k] = Input[start + k] for every k in [0, end - start]
\* on both channels; the cursor then advances by end - start + 1.
C18_KiteEmitCopiesBlock ==
    [][(plugin = "kite" /\ 0 <= block_start_position
           /\ block_start_position <= block_end_position
           /\ block_end_position <= samples_remaining - 1) =>
          /\ (pc = "emit" /\ pc' = "compact") =>
                \A ch \in Channels :
                   \A k \in 0..(block_end_position - block_start_position) :
                      mem'[Out(ch)][out_index + k + 1] =
                         mem[In(ch)][block_start_position + k + 1]
          /\ (pc = "compact" /\ pc' = "loop") =>
                out_index' = out_index + (block_end_position
                                            - block_start_position + 1)]_vars

\* C19: every pass of run_Kite's loop emits at least one sample: the
\* sub-block has end - start + 1 >= 1 samples and out_index is strictly
\* larger after the pass, so that the loop ends within N passes.
C19_KitePassAdvances ==
    [][(plugin = "kite" /\ KiteCallOk /\ pc = "compact" /\ pc' = "loop") =>
          /\ block_end_position - block_start_position + 1 >= 1
          /\ out_index' > out_index]_vars

\* C20: run_Reverse ends for every accepted call and every draw: each pass
\* of the outer loop leaves out_index strictly larger and not above N, and
\* the backward copy stops right after index start_position, in_index being
\* start_position - 1, which for start_position = 0 is the wrapped value
\* 2^64 - 1; no pass runs away.
C20_ReversePassAdvances ==
    [][(plugin = "reverse" /\ ReverseCallOk /\ pc = "loop"
           /\ out_index < total_samples) =>
          /\ pc' = "loop"
          /\ out_index' > out_index
          /\ out_index' <= total_samples
          /\ in_index' = start_position - 1
          /\ oob' = {}]_vars

\* the first pass of a call that needs more than one has ended with the
\* index wrapped around
C20_Witness ==
    /\ plugin = "reverse" /\ ReverseCallOk /\ pc = "loop"
    /\ Len(blocks) = 1 /\ blocks[1][1] = 0
    /\ in_index = ALL_ONES
    /\ out_index > 0 /\ out_index < total_samples

\* C21: within a pass of run_Kite's loop the steps come in the order
\* reverse, emit, compact, each on the left and on the right channel; the
\* reverse step changes the inputs only, and only when the draw selected it;
\* the emit step copies into the outputs what the reverse step left in the
\* inputs; the sub-block bounds and the switch stay as chosen until the pass
\* is over, and out_index and samples_remaining move in the compact step
\* only, by the length of the sub-block.
C21_KiteStepOrder ==
    [][(plugin = "kite" /\ KiteCallOk) =>
          LET len == block_end_position - block_start_position + 1
              inside == /\ 0 <= block_start_position
                        /\ block_start_position <= block_end_position
                        /\ block_end_position < bufLen
          IN
          /\ pc = "reverse" =>
                /\ pc' \in {"emit", "crashed"}
                /\ UNCHANGED <<kiteVars, out_index>>
                /\ \A ch \in Channels : mem'[Out(ch)] = mem[Out(ch)]
                /\ reverse # 0 => mem' = mem
                /\ (reverse = 0 /\ inside /\ pc' = "emit") =>
                      \A ch \in Channels : \A k \in 0..(len - 1) :
                         mem'[In(ch)][block_start_position + k + 1]
                            = mem[In(ch)][block_end_position - k + 1]
          /\ pc = "emit" =>
                /\ pc' \in {"compact", "crashed"}
                /\ UNCHANGED <<kiteVars, out_index>>
                /\ \A ch \in Channels : mem'[In(ch)] = mem[In(ch)]
                /\ inside =>
                      \A ch \in Channels : \A k \in 0..(len - 1) :
                         mem'[Out(ch)][out_index + k + 1] \in
                            {mem[In(ch)][block_start_position + k + 1],
                             mem[Out(ch)][out_index + k + 1]}
          /\ pc = "compact" =>
                /\ pc' \in {"loop", "crashed"}
                /\ UNCHANGED <<block_start_position, block_end_position,
                               reverse>>
                /\ \A ch \in Channels : mem'[Out(ch)] = mem[Out(ch)]
                /\ out_index' = out_index + len
                /\ samples_remaining' = samples_remaining - len
          /\ pc \in {"loop", "reverse", "emit"} =>
                UNCHANGED <<out_index, samples_remaining>>]_vars

\* the first sub-block of a call was reversed and then emitted: the head of
\* the output is the sample that was at the end of the sub-block
C21_Witness ==
    /\ plugin = "kite" /\ KiteCallOk /\ pc = "compact"
    /\ reverse = 0 /\ out_index = 0
    /\ 0 < block_start_position
    /\ block_start_position < block_end_position
    /\ block_end_position < total_samples
    /\ mem["Output_Left"][1] = orig["Input_Left"][block_end_position + 1]
    /\ mem["Output_Left"][1] # orig["Input_Left"][block_start_position + 1]

\* C22: whenever a pass of run_Kite's loop after the first one starts, at
\* least floor(0.25 * sample_rate) samples remain: no sub-block but the final
\* one leaves a remainder shorter than the minimum length, whatever was
\* drawn.
C22_KiteRemainderNotShort ==
    (plugin = "kite" /\ KiteCallOk /\ pc = "loop"
        /\ out_index > 0 /\ out_index < total_samples) =>
        samples_remaining >= sample_rate \div 4

PowerOfTwo(n) == \E k \in 0..12 : n = 2 ^ k

\* C23 as the specification states it: the circular array has 128 words
\* for a 64-bit word type and 64 words for a 32-bit one; r is a power of two
\* and after the first call the cursor i and the look-back index
\* (i + r - s) & (r - 1) lie in [0, r-1].
C23_ArraySizeAsStated ==
    plugin = "xor4096i" =>
        /\ gen_r_of(8) = 128 /\ gen_r_of(4) = 64
        /\ PowerOfTwo(gen_r)
        /\ draws > 0 =>
              /\ gen.i \in 0..(gen_r - 1)
              /\ BitAnd(gen.i + gen_r - gen_s, gen_r - 1) \in 0..(gen_r - 1)

\* C23, amended: the circular array has 64 words for a 64-bit word type and
\* 128 words for a 32-bit one (4096 bits either way); r is a power of two,
\* and after the first call the cursor i and the look-back index
\* (i + r - s) & (r - 1), which is (i - s) mod r, lie in [0, r-1].
C23_ArraySize ==
    plugin = "xor4096i" =>
        /\ gen_r_of(8) = 64 /\ gen_r_of(4) = 128
        /\ gen_r = gen_r_of(SizeofUINT)
        /\ PowerOfTwo(gen_r_of(8)) /\ PowerOfTwo(gen_r_of(4))
        /\ gen_r * gen_wlen = 4096
        /\ Len(gen.x) = gen_r
        /\ draws > 0 =>
              /\ gen.i \in 0..(gen_r - 1)
              /\ BitAnd(gen.i + gen_r - gen_s, gen_r - 1) \in 0..(gen_r - 1)
              /\ BitAnd(gen.i + gen_r - gen_s, gen_r - 1)
                    = (gen.i - gen_s) % gen_r

\* eight calls after which the cursor is at 7 and the look-back index, eleven
\* places on, at 18
C23_Witness ==
    /\ plugin = "xor4096i" /\ draws = 8
    /\ gen.i = 7
    /\ BitAnd(gen.i + gen_r - gen_s, gen_r - 1) = 18

\* C24 as the specification states it: a call xor4096i(0) made before any
\* call with a nonzero seed does not initialise the generator; the marker
\* i < 0 is still set afterwards.
C24_ZeroSeedLeavesUninitialised ==
    [][(plugin = "xor4096i" /\ gen.i < 0 /\ seed' = zero /\ draws' # draws) =>
          gen'.i < 0]_vars

\* C24, amended: the generator is uninitialised until the first call,
\* whatever its seed: before it the marker i < 0 is set and the state is the
\* zeroed static storage; the first call runs the initialisation, a zero
\* seed standing for its complement, the all-ones word; after any call
\* i >= 0, weyl holds its constant and the array is not all zero.
C24_FirstCallInitialises ==
    [][plugin = "xor4096i" =>
          /\ draws = 0 => gen = NoGen /\ gen.i < 0
          /\ draws' # draws =>
                /\ gen'.i >= 0
                /\ gen'.weyl = WEYL
                /\ \E k \in 1..gen_r : gen'.x[k] # zero
          /\ (draws = 0 /\ draws' # draws /\ seed' = zero) =>
                gen' = xor4096i(NoGen, Not(zero))]_vars

\* the first call had a zero seed and initialised the generator
C24_Witness ==
    /\ plugin = "xor4096i" /\ draws = 1 /\ seed = zero
    /\ gen.i = 0 /\ gen.weyl = WEYL
    /\ gen.x[1] # zero

\* C25: every call of GetRandomNaturalNumber that run_Kite and run_Reverse
\* make on an accepted call has lower_bound <= upper_bound as unsigned
\* long, so that the span upper_bound - lower_bound + 1 is neither zero (no
\* division by zero) nor a wrapped-around value, whatever was drawn before.
C25_RandomBoundsOrdered ==
    [][/\ (plugin = "kite" /\ KiteCallOk /\ pc = "loop"
              /\ ULt(out_index, total_samples)) =>
             LET MIN == sample_rate \div 4
                 MAX == MIN + 2 * sample_rate
                 whole == ULe(samples_remaining, MIN * 2)
                 tail == ~whole /\ ULe(samples_remaining, MAX)
                 start == block_start_position'
             IN  /\ pc' # "crashed"
                 /\ tail => ULe(MIN, samples_remaining - MIN)
                 /\ (~whole /\ ~tail) =>
                       /\ ULe(MIN, MAX)
                       /\ ULe(start + MIN,
                              IF ULt(samples_remaining, start + MAX - MIN)
                              THEN samples_remaining
                              ELSE start + MAX - MIN - 1)
       /\ (plugin = "reverse" /\ ReverseCallOk /\ pc = "loop"
              /\ ULt(out_index, total_samples)) =>
             LET MIN == (2 * sample_rate) \div 10
                 MAX == (15 * sample_rate) \div 10
                 lower == start_position + MIN
                 toEnd == \/ ULe(total_samples, MIN)
                          \/ ULe(total_samples - MIN, lower)
             IN  /\ pc' # "crashed"
                 /\ ~toEnd =>
                       ULe(lower, IF ULt(total_samples - MIN,
                                         start_position + MAX)
                                  THEN total_samples - MIN
                                  ELSE start_position + MAX)]_vars

\* C26: ApplyReverse(buffer, start, end) with start <= end ends, its loop
\* stopping once the two indexes have met, and uses no index outside
\* [start, end]: it makes no access outside the buffer and leaves every
\* element outside [start, end] as it was; for every start and end,
\* start = end = 0 included.
C26_ApplyReverseStaysInside ==
    (plugin = "ApplyReverse" /\ block_start_position <= block_end_position) =>
        /\ pc # "crashed"
        /\ oob = {}
        /\ \A i \in 0..(bufLen - 1) :
              (i < block_start_position \/ i > block_end_position) =>
                 mem["buffer"][i + 1] = orig["buffer"][i + 1]

\* C27: over accepted run_Adt calls after an activation, the offset control
\* free to change from call to call, every sample of the delayed-channel
\* output of a call is a zero left by the activation or an input sample of
\* that call or of the call before it: no sample of an older call comes out.
\* (The samples of the stream are numbered from 1; the call that has just
\* returned took the last total_samples of them.)
C27_AdtEmitsRecentOnly ==
    (plugin = "adt" /\ pc = "returned" /\ AdtCallOk /\ oob = {}) =>
        \A i \in 1..total_samples :
            LET v == mem["Output_Right"][i]
            IN  \/ v = 0
                \/ /\ v > Len(hist.in) - 2 * total_samples
                   /\ v <= Len(hist.in)

\* C28: in every accepted run_Adt call the offset in samples (the control
\* value limited to [5, 200] ms, converted with the sample rate of the
\* instance) is at most the allocated length of the run-off buffer, which
\* is the sample count of 200 ms computed by instantiate_Adt and never
\* changes; so no step of the call reads or writes the run-off buffer
\* outside its allocation.
C28_RunOffInsideAllocation ==
    plugin = "adt" =>
        /\ Len(mem["block_run_off"]) = (sample_rate * 200) \div 1000
        /\ "block_run_off" \notin oob
        /\ (AdtCallOk /\ pc \in {"left", "runoff", "right", "save",
                                  "returned", "crashed"}) =>
              /\ SAMPLE_OFFSET >= 0
              /\ SAMPLE_OFFSET <= Len(mem["block_run_off"])

\* a call with the control above 200 ms has returned: the offset was the
\* whole allocated length, and the head of the run-off buffer holds samples
\* of the call
C28_Witness ==
    /\ plugin = "adt" /\ pc = "returned" /\ AdtCallOk
    /\ offset > MAX_OFFSET
    /\ SAMPLE_OFFSET = Len(mem["block_run_off"])
    /\ mem["block_run_off"][1] > 0

\* the bounds of the draws of the reverse switch and of a sub-block start
DrawBounds == {<<0, 2>>, <<3, 27>>}

\* C29: a call xor4096i(seed) with a nonzero seed returns a word that
\* depends on the seed alone: whatever calls came before, the word returned,
\* and the whole state left behind, are those of a generator called for the
\* first time with that seed.  So the number GetRandomNaturalNumber makes of
\* the word, its lower bound plus the word modulo the span, depends on the
\* seed and the bounds alone.
C29_SeededResultIgnoresHistory ==
    (plugin = "xor4096i" /\ draws > 0 /\ seed # zero) =>
        LET fresh == xor4096i(NoGen, seed)
        IN  /\ gen.ret = fresh.ret
            /\ gen = fresh
            /\ \A bd \in DrawBounds :
                  bd[1] + WordMod(gen.ret, Span(bd[1], bd[2]))
                     = bd[1] + WordMod(fresh.ret, Span(bd[1], bd[2]))

\* the third call of a generator, with the seed 2, has returned the word
\* 0x3d01bd1bf0b9bfe8 of a first call with that seed; it makes 1 of a draw
\* in [0, 2]
C29_Witness ==
    /\ plugin = "xor4096i" /\ draws = 3 /\ seed = Word(0, 0, 0, 2)
    /\ gen.ret = Word(15617, 48411, 61625, 49128)
    /\ 0 + WordMod(gen.ret, Span(0, 2)) = 1

\* C30: run_Kite rearranges the two channels alike.  The left input holds
\* the sample j at index j - 1 and the right input its negative, so sample
\* j on the left goes with sample -j on the right: at every point of an
\* accepted call, and when it has returned, an output index holds j on the
\* left exactly when it holds -j on the right; the same goes for the input
\* buffers, which the call rearranges in place.
C30_KiteChannelsAlike ==
    (plugin = "kite" /\ KiteCallOk /\ pc # "crashed") =>
        \A i \in 1..bufLen : \A ch \in {"Output", "Input"} :
            LET left == mem[IF ch = "Output" THEN "Output_Left"
                            ELSE "Input_Left"][i]
                right == mem[IF ch = "Output" THEN "Output_Right"
                             ELSE "Input_Right"][i]
            IN  (left \in 1..bufLen \/ (0 - right) \in 1..bufLen) =>
                   right = 0 - left

\* a returned call whose left output holds every sample of the input, none
\* twice, in another order, its first sub-block having been reversed
C30_Witness ==
    /\ plugin = "kite" /\ KiteCallOk /\ pc = "returned"
    /\ sample_rate \notin KiteLongRates
    /\ oob = {}
    /\ \A j \in 1..bufLen : \E i \in 1..bufLen : mem["Output_Left"][i] = j
    /\ mem["Output_Left"] # orig["Input_Left"]
    /\ mem["Output_Left"][1] > mem["Output_Left"][2]
    /\ mem["Output_Right"][1] = 0 - mem["Output_Left"][1]
====
